---- MODULE Spec2Model ----
(***************************************************************************)
(* Licensing/account backend: accounts in the Firestore collection 'users', *)
(* HWID binding at client login, the Stripe webhook handlers and the       *)
(* subscription cancel endpoint.  A user document is a function from        *)
(* Firestore field paths ("hwid", "subscription.status", ...) to values;    *)
(* update() merges field paths into it.                                     *)
(***************************************************************************)
EXTENDS Integers, Sequences, FiniteSets, TLC

\* ---------------------------------------------------------------- bounds
MaxTime == 1
MaxLogins == 3
MaxDays == 8
MaxVouches == 2

\* ------------------------------------------------------------ value sets
NULL == "null"
NoTime == -1
UNDEFINED == "undefined"
NoUserId == 0

Usernames == {"bob", "Bob"}
SignupNames == {"bob"}
Passwords == {"secret1"}
WrongPassword == "badpass1"
Hwids == {"HW-A", "HW-B"}
Packages == {"monthly", "lifetime"}
CustomerNames == <<"cus_1", "cus_2", "cus_3", "cus_4">>
UnknownCustomer == "cus_x"
SubscriptionIds == {"sub_A"}
PeriodEnds == {30, 60}
StripeStatuses == {"active", "past_due"}

\* users: the 'users' collection; now: the clock; delivery: the webhook request
\* being served; logins: the client logins between their read and their write;
\* resets: the self-service resets between their read and their write;
\* vouches: the 'vouches' collection; signups: the signups between their
\* lookup and their createUser.
VARIABLES users, now, delivery, logins, resets, vouches, signups

vars == <<users, now, delivery, logins, resets, vouches, signups>>

\* -------------------------------------------------------------- helpers
UserIds == 1..Len(users)

Response(status, message) == [status |-> status, message |-> message]

\* JavaScript truthiness of a stored or received value.
Truthy(v) == v \notin {NULL, UNDEFINED, ""}

\* user.field where the field may be absent from the document.
Field(doc, path) == IF path \in DOMAIN doc THEN doc[path] ELSE UNDEFINED

HasField(doc, path) == path \in DOMAIN doc

\* admin.firestore.FieldValue.increment(n)
Increment(n) == [increment |-> n]

IncrementPaths == {"stats.totalLogins"}

\* DocumentReference.update(updates): a field-path scoped merge.
MergeFields(doc, updates) ==
    [p \in DOMAIN doc \cup DOMAIN updates |->
        IF p \in DOMAIN updates
        THEN IF p \in IncrementPaths
             THEN (IF p \in DOMAIN doc THEN doc[p] ELSE 0) + updates[p].increment
             ELSE updates[p]
        ELSE doc[p]]

updateUser(userId, updates) ==
    [users EXCEPT ![userId] = MergeFields(users[userId], updates)]

\* where('username', '==', username).limit(1): exact match, first document.
MatchingUsername(username) == {i \in UserIds : users[i]["username"] = username}

getUserByUsername(username) ==
    IF MatchingUsername(username) = {} THEN NoUserId
    ELSE CHOOSE i \in MatchingUsername(username) :
            \A j \in MatchingUsername(username) : i <= j

getUserById(userId) == IF userId \in UserIds THEN userId ELSE NoUserId

createUser(username, password) ==
    ("username" :> username @@ "password" :> password @@
     "createdAt" :> now @@ "lastLogin" :> now @@
     "hwid" :> NULL @@ "hwidLockedAt" :> NoTime @@
     "subscription.status" :> "inactive" @@
     "subscription.package" :> NULL @@
     "subscription.stripeCustomerId" :> NULL @@
     "subscription.stripeSubscriptionId" :> NULL @@
     "subscription.currentPeriodEnd" :> NoTime @@
     "subscription.activatedAt" :> NoTime @@
     "subscription.cancelledAt" :> NoTime @@
     "stats.totalLogins" :> 1 @@ "stats.lastLoginDate" :> now)

\* ------------------------------------------------------------------ Init
\* No webhook request is being served.
NoDelivery ==
    [stage |-> "idle", revision |-> "none", signatureValid |-> FALSE,
     event |-> [type |-> "none", object |-> [customer |-> UnknownCustomer]],
     status |-> 0, repositoryThrew |-> FALSE]

Clients == {"c1", "c2"}

\* No client login is between its read and its write.
NoLogin ==
    [stage |-> "idle", userId |-> NoUserId, hwid |-> UNDEFINED, updates |-> <<>>,
     status |-> 0]

\* No self-service reset request is between its read and its write.
NoReset == [stage |-> "idle", userId |-> NoUserId, success |-> FALSE, at |-> NoTime]

\* No signup request is between its lookup and its createUser.
NoSignup == [stage |-> "idle", username |-> NULL, password |-> NULL, status |-> 0]

Init ==
    /\ users = <<>>
    /\ now = 0
    /\ delivery = NoDelivery
    /\ logins = [c \in Clients |-> NoLogin]
    /\ resets = [c \in Clients |-> NoReset]
    /\ vouches = <<>>
    /\ signups = [c \in Clients |-> NoSignup]

\* ---------------------------------------------------------------- clock
Tick ==
    /\ now < MaxTime
    /\ now' = now + 1
    /\ UNCHANGED <<users, delivery, logins, resets, vouches, signups>>

\* --------------------------------------------------------------- signup
\* username.length < 3 and password.length < 6 are decided on the lengths.
SignupResult(username, password) ==
    IF ~Truthy(username) \/ ~Truthy(password)
    THEN [users |-> users, resp |-> Response(400, "Missing required fields")]
    ELSE IF getUserByUsername(username) # NoUserId
    THEN [users |-> users, resp |-> Response(409, "Username already exists")]
    ELSE [users |-> Append(users, createUser(username, password)),
          resp |-> Response(200, "Account created successfully")]

Signup(username, password) ==
    /\ users' = SignupResult(username, password).users
    /\ UNCHANGED <<now, delivery, logins, resets, vouches, signups>>

\* --------------------------------------------------------- client login
\* !user.subscription || user.subscription.status !== 'active'
LicenseInactive_GraceVariant(user) ==
    Field(user, "subscription.status") \notin {"active", "cancelled"}

LicenseInactive(user) == Field(user, "subscription.status") # "active"

\* user.hwid && user.hwid !== hwid
HwidMismatch_Unchecked(user, hwid) == FALSE

HwidMismatch(user, hwid) ==
    Truthy(Field(user, "hwid")) /\ Field(user, "hwid") # hwid

HwidUpdates_Unstamped(user, hwid) ==
    IF ~Truthy(Field(user, "hwid")) THEN "hwid" :> hwid ELSE <<>>

HwidUpdates_Restamped(user, hwid) ==
    IF ~Truthy(Field(user, "hwid"))
    THEN ("hwid" :> hwid @@ "hwidLockedAt" :> now)
    ELSE "hwidLockedAt" :> now

\* if (!user.hwid) { updates.hwid = hwid; updates.hwidLockedAt = now }
HwidUpdates(user, hwid) ==
    IF ~Truthy(Field(user, "hwid"))
    THEN ("hwid" :> hwid @@ "hwidLockedAt" :> now)
    ELSE <<>>

\* The login writing back the whole document it read, with its changes.
LoginUpdates_WholeDocument(user, hwid) ==
    (HwidUpdates(user, hwid)
     @@ ("lastLogin" :> now @@ "stats.totalLogins" :> Increment(1) @@
         "stats.lastLoginDate" :> now))
    @@ user

\* The login without the counter update.
LoginUpdates_Uncounted(user, hwid) ==
    HwidUpdates(user, hwid)
    @@ ("lastLogin" :> now @@ "stats.lastLoginDate" :> now)

LoginUpdates(user, hwid) ==
    HwidUpdates(user, hwid)
    @@ ("lastLogin" :> now @@ "stats.totalLogins" :> Increment(1) @@
        "stats.lastLoginDate" :> now)

\* The binding written before the license is looked at.
LoginResult_BindsFirst(username, password, hwid) ==
    LET userId == getUserByUsername(username)
        user == users[userId]
    IN  IF ~Truthy(username) \/ ~Truthy(password) \/ ~Truthy(hwid)
        THEN [users |-> users, resp |-> Response(400, "Missing required fields")]
        ELSE IF userId = NoUserId
        THEN [users |-> users, resp |-> Response(401, "Invalid credentials")]
        ELSE IF user["password"] # password
        THEN [users |-> users, resp |-> Response(401, "Invalid credentials")]
        ELSE IF LicenseInactive(user)
        THEN [users |-> updateUser(userId, HwidUpdates(user, hwid)),
              resp |-> Response(403, "No active license")]
        ELSE IF HwidMismatch(user, hwid)
        THEN [users |-> users, resp |-> Response(403, "Hardware mismatch")]
        ELSE [users |-> updateUser(userId, LoginUpdates(user, hwid)),
              resp |-> Response(200, "Login successful")]

\* The license check placed ahead of the credential check.
LoginResult_LicenseFirst(username, password, hwid) ==
    LET userId == getUserByUsername(username)
        user == users[userId]
    IN  IF ~Truthy(username) \/ ~Truthy(password) \/ ~Truthy(hwid)
        THEN [users |-> users, resp |-> Response(400, "Missing required fields")]
        ELSE IF userId = NoUserId
        THEN [users |-> users, resp |-> Response(401, "Invalid credentials")]
        ELSE IF LicenseInactive(user)
        THEN [users |-> users, resp |-> Response(403, "No active license")]
        ELSE IF user["password"] # password
        THEN [users |-> users, resp |-> Response(401, "Invalid credentials")]
        ELSE IF HwidMismatch(user, hwid)
        THEN [users |-> users, resp |-> Response(403, "Hardware mismatch")]
        ELSE [users |-> updateUser(userId, LoginUpdates(user, hwid)),
              resp |-> Response(200, "Login successful")]

LoginResult(username, password, hwid) ==
    LET userId == getUserByUsername(username)
        user == users[userId]
    IN  IF ~Truthy(username) \/ ~Truthy(password) \/ ~Truthy(hwid)
        THEN [users |-> users, resp |-> Response(400, "Missing required fields")]
        ELSE IF userId = NoUserId
        THEN [users |-> users, resp |-> Response(401, "Invalid credentials")]
        ELSE IF user["password"] # password
        THEN [users |-> users, resp |-> Response(401, "Invalid credentials")]
        ELSE IF LicenseInactive(user)
        THEN [users |-> users, resp |-> Response(403, "No active license")]
        ELSE IF HwidMismatch(user, hwid)
        THEN [users |-> users, resp |-> Response(403, "Hardware mismatch")]
        ELSE [users |-> updateUser(userId, LoginUpdates(user, hwid)),
              resp |-> Response(200, "Login successful")]

Login(username, password, hwid) ==
    /\ LoginResult(username, password, hwid).resp.status = 200
         => users[getUserByUsername(username)]["stats.totalLogins"] < MaxLogins
    /\ users' = LoginResult(username, password, hwid).users
    /\ UNCHANGED <<now, delivery, logins, resets, vouches, signups>>

\* ------------------------------------------------------- dashboard login
WebLoginResult(username, password) ==
    LET userId == getUserByUsername(username)
    IN  IF ~Truthy(username) \/ ~Truthy(password)
        THEN [users |-> users, resp |-> Response(400, "Missing credentials")]
        ELSE IF userId = NoUserId \/ users[userId]["password"] # password
        THEN [users |-> users, resp |-> Response(401, "Invalid credentials")]
        ELSE [users |-> updateUser(userId, "lastLogin" :> now @@
                                             "stats.lastLoginDate" :> now),
              resp |-> Response(200, "Web login successful")]

WebLogin(username, password) ==
    /\ users' = WebLoginResult(username, password).users
    /\ UNCHANGED <<now, delivery, logins, resets, vouches, signups>>

\* ----------------------------------------------------- admin HWID reset
ResetHwidUpdates_KeepsStamp == "hwid" :> NULL

\* updateUser(user.id, { hwid: null, hwidLockedAt: null })
ResetHwidUpdates == "hwid" :> NULL @@ "hwidLockedAt" :> NoTime

ResetHwidResult_Cooldown(username) ==
    LET userId == getUserByUsername(username)
    IN  IF ~Truthy(username)
        THEN [users |-> users, resp |-> Response(400, "Username required")]
        ELSE IF userId = NoUserId
        THEN [users |-> users, resp |-> Response(404, "User not found")]
        ELSE IF ~Truthy(Field(users[userId], "hwid"))
        THEN [users |-> users, resp |-> Response(400, "User is not hardware locked")]
        ELSE IF HasField(users[userId], "subscription.lastHwidReset")
        THEN [users |-> users, resp |-> Response(400, "Cooldown")]
        ELSE [users |-> updateUser(userId, ResetHwidUpdates),
              resp |-> Response(200, "Hardware lock reset")]

ResetHwidResult(username) ==
    LET userId == getUserByUsername(username)
    IN  IF ~Truthy(username)
        THEN [users |-> users, resp |-> Response(400, "Username required")]
        ELSE IF userId = NoUserId
        THEN [users |-> users, resp |-> Response(404, "User not found")]
        ELSE IF ~Truthy(Field(users[userId], "hwid"))
        THEN [users |-> users, resp |-> Response(400, "User is not hardware locked")]
        ELSE [users |-> updateUser(userId, ResetHwidUpdates),
              resp |-> Response(200, "Hardware lock reset")]

ResetHwid(username) ==
    /\ users' = ResetHwidResult(username).users
    /\ UNCHANGED <<now, delivery, logins, resets, vouches, signups>>

\* ---------------------------------------------- self-service HWID reset
CooldownDays == 7

SelfResetHwidResult(sessionUserId) ==
    LET userId == getUserById(sessionUserId)
        lastReset == Field(users[userId], "subscription.lastHwidReset")
    IN  IF sessionUserId = NoUserId
        THEN [users |-> users, resp |-> Response(401, "Not authenticated")]
        ELSE IF userId = NoUserId
        THEN [users |-> users, resp |-> Response(404, "User not found")]
        ELSE IF Field(users[userId], "subscription.status") # "active"
        THEN [users |-> users, resp |-> Response(200, "No active subscription")]
        ELSE IF HasField(users[userId], "subscription.lastHwidReset")
                /\ now - lastReset < CooldownDays
        THEN [users |-> users, resp |-> Response(200, "HWID can only be reset once every 7 days")]
        ELSE [users |-> updateUser(userId, "subscription.hwid" :> NULL @@
                                           "subscription.lastHwidReset" :> now),
              resp |-> Response(200, "HWID reset successfully")]

SelfResetHwid(sessionUserId) ==
    /\ users' = SelfResetHwidResult(sessionUserId).users
    /\ UNCHANGED <<now, delivery, logins, resets, vouches, signups>>

\* ------------------------------------------------------ checkout session
\* stripe.customers.create returns a customer id no other account holds.
CustomerFor(userId) == CustomerNames[userId]

CreateCheckoutSessionResult(sessionUserId) ==
    LET userId == getUserById(sessionUserId)
    IN  IF sessionUserId = NoUserId
        THEN [users |-> users, resp |-> Response(401, "Unauthorized")]
        ELSE IF userId = NoUserId
        THEN [users |-> users, resp |-> Response(404, "User not found")]
        ELSE IF ~Truthy(Field(users[userId], "subscription.stripeCustomerId"))
        THEN [users |-> updateUser(userId,
                          "subscription.stripeCustomerId" :> CustomerFor(userId)),
              resp |-> Response(200, "Checkout session created")]
        ELSE [users |-> users, resp |-> Response(200, "Checkout session created")]

CreateCheckoutSession(sessionUserId) ==
    /\ users' = CreateCheckoutSessionResult(sessionUserId).users
    /\ UNCHANGED <<now, delivery, logins, resets, vouches, signups>>

\* -------------------------------------------------------- Stripe events
\* Customers Stripe knows for our accounts: one per account that opened a
\* checkout session.
AccountCustomers ==
    {users[i]["subscription.stripeCustomerId"] : i \in
        {j \in UserIds : Truthy(Field(users[j], "subscription.stripeCustomerId"))}}

CheckoutSessions ==
    {[userId |-> u, packageType |-> pk, customer |-> users[u]["subscription.stripeCustomerId"],
      subscription |-> sub] :
        u \in {j \in UserIds : Truthy(Field(users[j], "subscription.stripeCustomerId"))},
        pk \in Packages, sub \in SubscriptionIds \cup {NULL}}

\* mode 'payment' (lifetime) sessions carry no subscription, mode
\* 'subscription' sessions carry one; a session made outside the site has no
\* metadata.userId.
Sessions ==
    {s \in CheckoutSessions : (s.packageType = "lifetime") <=> (s.subscription = NULL)}
    \cup {[userId |-> NoUserId, packageType |-> "monthly",
           customer |-> UnknownCustomer, subscription |-> "sub_A"]}

StripeSubscriptions ==
    [customer : AccountCustomers \cup {UnknownCustomer},
     status : StripeStatuses, current_period_end : PeriodEnds]

Invoices == [customer : AccountCustomers \cup {UnknownCustomer}]

\* What stripe.subscriptions.retrieve answers: the period end, or an error.
RetrieveError == [ok |-> FALSE, current_period_end |-> NoTime]

StripeAnswers == [ok : {TRUE}, current_period_end : PeriodEnds] \cup {RetrieveError}

CheckoutEvents == [type : {"checkout.session.completed"}, object : Sessions]

OtherEvents ==
    [type : {"customer.subscription.updated", "customer.subscription.deleted"},
     object : StripeSubscriptions]
    \cup [type : {"invoice.payment_succeeded", "invoice.payment_failed",
                  "customer.created"},
          object : Invoices]

Events == CheckoutEvents \cup OtherEvents

\* ------------------------------------------------------ webhook handlers
CheckoutUpdates_KeepsFirstActivation(session, answer) ==
    ("subscription.status" :> "active" @@
     "subscription.package" :> session.packageType @@
     "subscription.activatedAt" :>
        (IF users[session.userId]["subscription.activatedAt"] # NoTime
         THEN users[session.userId]["subscription.activatedAt"] ELSE now) @@
     "subscription.stripeCustomerId" :> session.customer)
    @@ (IF session.packageType = "lifetime"
        THEN "subscription.currentPeriodEnd" :> NoTime
        ELSE ("subscription.stripeSubscriptionId" :> session.subscription)
             @@ (IF Truthy(session.subscription) /\ answer.ok
                 THEN "subscription.currentPeriodEnd" :> answer.current_period_end
                 ELSE <<>>))

CheckoutUpdates_KeepsPeriodEnd(session, answer) ==
    ("subscription.status" :> "active" @@
     "subscription.package" :> session.packageType @@
     "subscription.activatedAt" :> now @@
     "subscription.stripeCustomerId" :> session.customer)
    @@ (IF session.packageType = "lifetime"
        THEN <<>>
        ELSE ("subscription.stripeSubscriptionId" :> session.subscription)
             @@ (IF Truthy(session.subscription) /\ answer.ok
                 THEN "subscription.currentPeriodEnd" :> answer.current_period_end
                 ELSE <<>>))

CheckoutUpdates(session, answer) ==
    ("subscription.status" :> "active" @@
     "subscription.package" :> session.packageType @@
     "subscription.activatedAt" :> now @@
     "subscription.stripeCustomerId" :> session.customer)
    @@ (IF session.packageType = "lifetime"
        THEN "subscription.currentPeriodEnd" :> NoTime
        ELSE ("subscription.stripeSubscriptionId" :> session.subscription)
             @@ (IF Truthy(session.subscription) /\ answer.ok
                 THEN "subscription.currentPeriodEnd" :> answer.current_period_end
                 ELSE <<>>))

handleCheckoutSessionCompleted(session, answer) ==
    IF session.userId = NoUserId THEN users
    ELSE updateUser(session.userId, CheckoutUpdates(session, answer))

\* where('subscription.stripeCustomerId', '==', customerId).limit(1)
MatchingCustomer(customerId) ==
    {i \in UserIds : Field(users[i], "subscription.stripeCustomerId") = customerId}

getUserByCustomerId_FirstAccount(customerId) ==
    IF MatchingCustomer(customerId) = {}
    THEN (IF UserIds = {} THEN NoUserId ELSE 1)
    ELSE CHOOSE i \in MatchingCustomer(customerId) :
            \A j \in MatchingCustomer(customerId) : i <= j

getUserByCustomerId(customerId) ==
    IF MatchingCustomer(customerId) = {} THEN NoUserId
    ELSE CHOOSE i \in MatchingCustomer(customerId) :
            \A j \in MatchingCustomer(customerId) : i <= j

handleSubscriptionUpdated_Normalised(subscription) ==
    LET userId == getUserByCustomerId(subscription.customer)
    IN  IF userId = NoUserId THEN users
        ELSE updateUser(userId,
                "subscription.status" :>
                    (IF subscription.status = "active" THEN "active" ELSE "inactive") @@
                "subscription.currentPeriodEnd" :> subscription.current_period_end)

handleSubscriptionUpdated(subscription) ==
    LET userId == getUserByCustomerId(subscription.customer)
    IN  IF userId = NoUserId THEN users
        ELSE updateUser(userId,
                "subscription.status" :> subscription.status @@
                "subscription.currentPeriodEnd" :> subscription.current_period_end)

handleSubscriptionDeleted_AllAccounts(subscription) ==
    [i \in UserIds |->
        MergeFields(users[i], "subscription.status" :> "cancelled" @@
                              "subscription.cancelledAt" :> now)]

handleSubscriptionDeleted_MarksDeleted(subscription) ==
    LET userId == getUserByCustomerId(subscription.customer)
    IN  IF userId = NoUserId THEN users
        ELSE updateUser(userId,
                "subscription.status" :> "deleted" @@
                "subscription.cancelledAt" :> now)

handleSubscriptionDeleted(subscription) ==
    LET userId == getUserByCustomerId(subscription.customer)
    IN  IF userId = NoUserId THEN users
        ELSE updateUser(userId,
                "subscription.status" :> "cancelled" @@
                "subscription.cancelledAt" :> now)

handlePaymentSucceeded(invoice) == users

\* A failed payment releasing the account's binding.
handlePaymentFailed_Unbinds(invoice) ==
    LET userId == getUserByCustomerId(invoice.customer)
    IN  IF userId = NoUserId THEN users
        ELSE updateUser(userId, "hwid" :> NULL @@ "hwidLockedAt" :> NoTime)

handlePaymentFailed(invoice) == users

HandleEvent_UnknownAsDeleted(event, answer) ==
    CASE event.type = "checkout.session.completed" ->
            handleCheckoutSessionCompleted(event.object, answer)
      [] event.type = "customer.subscription.updated" ->
            handleSubscriptionUpdated(event.object)
      [] event.type = "invoice.payment_succeeded" ->
            handlePaymentSucceeded(event.object)
      [] event.type = "invoice.payment_failed" ->
            handlePaymentFailed(event.object)
      [] OTHER -> handleSubscriptionDeleted(event.object)

HandleEvent(event, answer) ==
    CASE event.type = "checkout.session.completed" ->
            handleCheckoutSessionCompleted(event.object, answer)
      [] event.type = "customer.subscription.updated" ->
            handleSubscriptionUpdated(event.object)
      [] event.type = "customer.subscription.deleted" ->
            handleSubscriptionDeleted(event.object)
      [] event.type = "invoice.payment_succeeded" ->
            handlePaymentSucceeded(event.object)
      [] event.type = "invoice.payment_failed" ->
            handlePaymentFailed(event.object)
      [] OTHER -> users

WebhookResult_DispatchFirst(signatureValid, event, answer) ==
    [users |-> HandleEvent(event, answer),
     resp |-> IF signatureValid THEN Response(200, "received")
              ELSE Response(400, "Webhook Error")]

\* constructEvent() throws on a bad signature, before the switch is reached.
WebhookResult(signatureValid, event, answer) ==
    IF ~signatureValid
    THEN [users |-> users, resp |-> Response(400, "Webhook Error")]
    ELSE [users |-> HandleEvent(event, answer), resp |-> Response(200, "received")]

StripeWebhook(signatureValid, event, answer) ==
    /\ users' = WebhookResult(signatureValid, event, answer).users
    /\ UNCHANGED <<now, delivery, logins, resets, vouches, signups>>

\* ------------------------------------------------- cancel subscription
\* stripe.subscriptions.update may throw; the catch answers 500 before any
\* write to the account.
CancelSubscriptionResult(sessionUserId, stripeOk) ==
    LET userId == getUserById(sessionUserId)
    IN  IF sessionUserId = NoUserId
        THEN [users |-> users, resp |-> Response(401, "Unauthorized")]
        ELSE IF userId = NoUserId
        THEN [users |-> users, resp |-> Response(404, "User not found")]
        ELSE IF ~Truthy(Field(users[userId], "subscription.stripeSubscriptionId"))
        THEN [users |-> users, resp |-> Response(400, "No active subscription to cancel")]
        ELSE IF ~stripeOk
        THEN [users |-> users, resp |-> Response(500, "Failed to cancel subscription")]
        ELSE [users |-> updateUser(userId,
                          "subscription.status" :> "cancelled" @@
                          "subscription.cancelledAt" :> now),
              resp |-> Response(200, "Subscription cancelled")]

CancelSubscription(sessionUserId, stripeOk) ==
    /\ users' = CancelSubscriptionResult(sessionUserId, stripeOk).users
    /\ UNCHANGED <<now, delivery, logins, resets, vouches, signups>>

\* '/api/subscription/cancel': asks Stripe to cancel at period end and leaves
\* the stored status to the subscription-deleted event.
SubscriptionCancelResult(sessionUserId) ==
    LET userId == getUserById(sessionUserId)
    IN  IF sessionUserId = NoUserId
        THEN [users |-> users, resp |-> Response(401, "Not authenticated")]
        ELSE IF userId = NoUserId
        THEN [users |-> users, resp |-> Response(404, "User not found")]
        ELSE IF ~Truthy(Field(users[userId], "subscription.stripeSubscriptionId"))
        THEN [users |-> users, resp |-> Response(200, "No active subscription found")]
        ELSE [users |-> users,
              resp |-> Response(200, "Subscription will be cancelled at the end of the billing period")]

SubscriptionCancel(sessionUserId) ==
    /\ users' = SubscriptionCancelResult(sessionUserId).users
    /\ UNCHANGED <<now, delivery, logins, resets, vouches, signups>>

\* ----------------------------------------------------------------- next
SessionUsers == {NoUserId} \cup UserIds

Next ==
    \/ Tick
    \/ \E u \in SignupNames \cup {UNDEFINED}, p \in Passwords \cup {UNDEFINED} :
          Signup(u, p)
    \/ \E u \in Usernames \cup {UNDEFINED},
          p \in Passwords \cup {WrongPassword, UNDEFINED},
          h \in Hwids \cup {UNDEFINED} : Login(u, p, h)
    \/ \E u \in Usernames \cup {UNDEFINED},
          p \in Passwords \cup {WrongPassword} : WebLogin(u, p)
    \/ \E u \in Usernames \cup {UNDEFINED} : ResetHwid(u)
    \/ \E i \in SessionUsers : SelfResetHwid(i)
    \/ \E i \in SessionUsers : CreateCheckoutSession(i)
    \/ \E e \in CheckoutEvents, a \in StripeAnswers : StripeWebhook(TRUE, e, a)
    \/ \E e \in OtherEvents : StripeWebhook(TRUE, e, RetrieveError)
    \/ \E e \in Events : StripeWebhook(FALSE, e, RetrieveError)
    \/ \E i \in SessionUsers, ok \in BOOLEAN : CancelSubscription(i, ok)
    \/ \E i \in SessionUsers : SubscriptionCancel(i)

Spec == Init /\ [][Next]_vars

\* =========================================================== properties
HwidSet(doc) == HasField(doc, "hwid") /\ doc["hwid"] # NULL

HwidLockedAtSet(doc) == HasField(doc, "hwidLockedAt") /\ doc["hwidLockedAt"] # NoTime

Status(doc) == Field(doc, "subscription.status")

\* The credentials of account i as a client would present them.
NameOf(i) == users[i]["username"]

PasswordOf(i) == users[i]["password"]

\* C1: in every reachable state every account has hwid non-null exactly when
\* hwidLockedAt is non-null.
C1_HwidIffLockedAt ==
    \A i \in UserIds : HwidSet(users[i]) <=> HwidLockedAtSet(users[i])

\* An account bound by a client login, after a self-service reset and a
\* status change by a webhook event.
C1_Witness ==
    \E i \in UserIds :
        /\ HwidSet(users[i]) /\ HwidLockedAtSet(users[i])
        /\ HasField(users[i], "subscription.lastHwidReset")
        /\ Status(users[i]) = "cancelled"

\* C2: a client login with the account's credentials and any HWID h, on an
\* account with an active license and no HWID, is admitted and binds the
\* account: afterwards hwid = h and hwidLockedAt is the time of the login.
C2_FirstLoginBinds ==
    \A i \in UserIds, h \in Hwids :
        (~HwidSet(users[i]) /\ Status(users[i]) = "active")
        => LET r == LoginResult(NameOf(i), PasswordOf(i), h)
           IN  /\ r.resp.status = 200
               /\ r.users[i]["hwid"] = h
               /\ r.users[i]["hwidLockedAt"] = now

\* A first-use binding has happened: one admitted login, the account bound
\* at the current time.
C2_Witness ==
    \E i \in UserIds :
        /\ users[i]["hwid"] \in Hwids
        /\ users[i]["hwidLockedAt"] = now
        /\ users[i]["stats.totalLogins"] = 2
        /\ now > 0

\* C3: a client login presenting an HWID other than the stored one is denied,
\* with the hardware-mismatch answer when credentials and license are good,
\* and changes nothing in the repository.
C3_MismatchDeniedNoMutation ==
    \A i \in UserIds, h \in Hwids, p \in Passwords \cup {WrongPassword} :
        (HwidSet(users[i]) /\ users[i]["hwid"] # h)
        => LET r == LoginResult(NameOf(i), p, h)
           IN  /\ r.resp.status \in {401, 403}
               /\ r.users = users
               /\ (p = PasswordOf(i) /\ Status(users[i]) = "active")
                    => r.resp = Response(403, "Hardware mismatch")

\* A licensed account bound to HW-A on which a login from HW-B is answered
\* with the hardware mismatch.
C3_Witness ==
    \E i \in UserIds :
        /\ users[i]["hwid"] = "HW-A"
        /\ Status(users[i]) = "active"
        /\ LoginResult(NameOf(i), PasswordOf(i), "HW-B").resp
             = Response(403, "Hardware mismatch")

\* C4: on a bound account with an active license a client login presenting
\* the stored HWID is admitted and leaves hwid and hwidLockedAt as they were.
C4_RepeatLoginKeepsBinding ==
    \A i \in UserIds :
        (HwidSet(users[i]) /\ Status(users[i]) = "active")
        => LET r == LoginResult(NameOf(i), PasswordOf(i), users[i]["hwid"])
           IN  /\ r.resp.status = 200
               /\ r.users[i]["hwid"] = users[i]["hwid"]
               /\ r.users[i]["hwidLockedAt"] = users[i]["hwidLockedAt"]

\* Two admitted logins, the account still carrying a binding time older than
\* the clock.
C4_Witness ==
    \E i \in UserIds :
        /\ HwidSet(users[i])
        /\ users[i]["hwidLockedAt"] < now
        /\ users[i]["lastLogin"] = now
        /\ users[i]["stats.totalLogins"] = 3
        /\ Status(users[i]) = "active"

C6_BadSignatureRejected ==
    \A e \in Events, a \in StripeAnswers :
        WebhookResult(FALSE, e, a)
          = [users |-> users, resp |-> Response(400, "Webhook Error")]

\* A state where the rejected request carries an event that would have
\* changed an account had it been dispatched.
C6_Witness ==
    \E e \in Events, a \in StripeAnswers :
        /\ HandleEvent(e, a) # users
        /\ WebhookResult(FALSE, e, a).users = users
        /\ WebhookResult(FALSE, e, a).resp.status = 400

\* The subscription fields a checkout-completed event for this session leaves
\* on its account: the state carries one application of the event.
CheckoutApplied(session) ==
    /\ session.userId \in UserIds
    /\ Status(users[session.userId]) = "active"
    /\ users[session.userId]["subscription.package"] = session.packageType
    /\ users[session.userId]["subscription.stripeCustomerId"] = session.customer
    /\ users[session.userId]["subscription.activatedAt"] # NoTime
    /\ session.packageType = "lifetime"
         => users[session.userId]["subscription.currentPeriodEnd"] = NoTime
    /\ session.packageType # "lifetime"
         => users[session.userId]["subscription.stripeSubscriptionId"] = session.subscription

IdentityFields ==
    {"subscription.status", "subscription.package",
     "subscription.stripeCustomerId", "subscription.stripeSubscriptionId"}

ReplayFields ==
    IdentityFields \cup {"subscription.currentPeriodEnd", "subscription.activatedAt"}

\* Stripe reports for the session's subscription the period end the account
\* already stores (or the lookup fails, which leaves the stored one).
SameAnswer(session, answer) ==
    answer.ok => answer.current_period_end =
                   users[session.userId]["subscription.currentPeriodEnd"]

\* C7 as stated: delivering a checkout-completed event to an account that
\* already carries its application, with Stripe reporting the same period
\* end, leaves status, package, customer id, subscription id,
\* currentPeriodEnd and activatedAt all as they were.
C7_ReplayKeepsAllFields ==
    [][\A e \in CheckoutEvents, a \in StripeAnswers :
          (CheckoutApplied(e.object) /\ SameAnswer(e.object, a)
             /\ StripeWebhook(TRUE, e, a))
          => \A f \in ReplayFields :
                users'[e.object.userId][f] = users[e.object.userId][f]]_vars

\* C7 amended: the replay leaves status, package, customer id and
\* subscription id as they were, sets activatedAt to the time of the replay,
\* and sets currentPeriodEnd to the period end Stripe reports at the replay
\* (null for lifetime, unchanged when the lookup fails).
C7_ReplayRefreshesTimestamps ==
    [][\A e \in CheckoutEvents, a \in StripeAnswers :
          (CheckoutApplied(e.object) /\ StripeWebhook(TRUE, e, a))
          => LET before == users[e.object.userId]
                 after == users'[e.object.userId]
             IN  /\ \A f \in IdentityFields : after[f] = before[f]
                 /\ after["subscription.activatedAt"] = now
                 /\ after["subscription.currentPeriodEnd"] =
                      IF e.object.packageType = "lifetime" THEN NoTime
                      ELSE IF a.ok THEN a.current_period_end
                      ELSE before["subscription.currentPeriodEnd"]
                 /\ \A f \in DOMAIN before \ ReplayFields : after[f] = before[f]]_vars

\* An account carrying a monthly checkout applied at an earlier time, so
\* that a redelivery now finds the event already applied.
C7_Witness ==
    \E e \in CheckoutEvents :
        /\ CheckoutApplied(e.object)
        /\ e.object.packageType = "monthly"
        /\ users[e.object.userId]["subscription.activatedAt"] < now
        /\ users[e.object.userId]["subscription.currentPeriodEnd"] \in PeriodEnds

\* The account's session identity and customer id, as the cancel endpoint and
\* Stripe's subscription events name it.
CustomerOf(i) == Field(users[i], "subscription.stripeCustomerId")

DeletedEventFor(i) ==
    [customer |-> CustomerOf(i), status |-> "active", current_period_end |-> 30]

\* C8: cancel on a lifetime account fails and leaves status and cancelledAt
\* alone; cancel on a monthly account holding a subscription id (Stripe
\* accepting the call) succeeds and sets status = cancelled and cancelledAt.
C8_CancelRespectsPackage ==
    \A i \in UserIds :
        LET r == CancelSubscriptionResult(i, TRUE)
        IN  /\ Field(users[i], "subscription.package") = "lifetime"
                 => /\ r.resp.status # 200
                    /\ r.users[i]["subscription.status"] = users[i]["subscription.status"]
                    /\ r.users[i]["subscription.cancelledAt"] = users[i]["subscription.cancelledAt"]
            /\ (Field(users[i], "subscription.package") = "monthly"
                  /\ Truthy(Field(users[i], "subscription.stripeSubscriptionId")))
                 => /\ r.resp.status = 200
                    /\ r.users[i]["subscription.status"] = "cancelled"
                    /\ r.users[i]["subscription.cancelledAt"] = now

\* C9: an account whose package is lifetime holds no Stripe subscription id.
C9_LifetimeHasNoSubscriptionId ==
    \A i \in UserIds :
        Field(users[i], "subscription.package") = "lifetime"
        => ~Truthy(Field(users[i], "subscription.stripeSubscriptionId"))

\* C10: neither a subscription-deleted event for its customer nor the cancel
\* endpoint changes the status of an active lifetime account.
C10_LifetimeNeverCancelled ==
    \A i \in UserIds :
        (Field(users[i], "subscription.package") = "lifetime"
           /\ Status(users[i]) = "active")
        => /\ Status(WebhookResult(TRUE,
                        [type |-> "customer.subscription.deleted",
                         object |-> DeletedEventFor(i)],
                        RetrieveError).users[i]) = "active"
           /\ Status(CancelSubscriptionResult(i, TRUE).users[i]) = "active"

\* C11: an authentic checkout-completed event for package lifetime leaves its
\* account with status active and currentPeriodEnd null, whatever the
\* subscription fields were before.
C11_LifetimeCheckoutActivates ==
    \A e \in CheckoutEvents, a \in StripeAnswers :
        (e.object.packageType = "lifetime" /\ e.object.userId \in UserIds)
        => LET r == WebhookResult(TRUE, e, a)
               after == r.users[e.object.userId]
           IN  /\ r.resp.status = 200
               /\ after["subscription.status"] = "active"
               /\ after["subscription.currentPeriodEnd"] = NoTime

\* An account holding a paid-through date from a monthly subscription, for
\* which a lifetime checkout event can arrive.
C11_Witness ==
    \E e \in CheckoutEvents :
        /\ e.object.packageType = "lifetime"
        /\ e.object.userId \in UserIds
        /\ users[e.object.userId]["subscription.package"] = "monthly"
        /\ users[e.object.userId]["subscription.currentPeriodEnd"] \in PeriodEnds
        /\ WebhookResult(TRUE, e, RetrieveError).users[e.object.userId]
              ["subscription.currentPeriodEnd"] = NoTime

HandledTypes ==
    {"checkout.session.completed", "customer.subscription.updated",
     "customer.subscription.deleted", "invoice.payment_succeeded",
     "invoice.payment_failed"}

\* C14: an authentic event of a type outside the handled ones is answered
\* with the acknowledgement and changes no account.
C14_UnknownTypeAcknowledged ==
    \A e \in Events, a \in StripeAnswers :
        e.type \notin HandledTypes
        => WebhookResult(TRUE, e, a) = [users |-> users, resp |-> Response(200, "received")]

\* An unhandled event naming the customer of an existing account.
C14_Witness ==
    \E e \in Events, i \in UserIds :
        /\ e.type \notin HandledTypes
        /\ e.object.customer = Field(users[i], "subscription.stripeCustomerId")
        /\ WebhookResult(TRUE, e, RetrieveError).resp = Response(200, "received")

LookupTypes == HandledTypes \ {"checkout.session.completed"}

\* C15: a subscription-updated, subscription-deleted, payment-succeeded or
\* payment-failed event whose customer id no account holds is answered with
\* the acknowledgement and changes no account.
C15_NoMatchAcknowledged ==
    \A e \in OtherEvents :
        (e.type \in LookupTypes /\ MatchingCustomer(e.object.customer) = {})
        => WebhookResult(TRUE, e, RetrieveError)
             = [users |-> users, resp |-> Response(200, "received")]

\* An active account with a customer id, and a subscription-deleted event
\* for a customer id that is not its own.
C15_Witness ==
    \E e \in OtherEvents, i \in UserIds :
        /\ e.type = "customer.subscription.deleted"
        /\ Truthy(Field(users[i], "subscription.stripeCustomerId"))
        /\ Status(users[i]) = "active"
        /\ MatchingCustomer(e.object.customer) = {}
        /\ WebhookResult(TRUE, e, RetrieveError).resp = Response(200, "received")

DocumentedStatuses == {"none", "inactive", "active", "cancelled"}

C20_AdminResetNoCooldown ==
    \A i \in UserIds :
        LET r == ResetHwidResult(NameOf(i))
        IN  IF HwidSet(users[i])
            THEN /\ r.resp.status = 200
                 /\ r.users[i]["hwid"] = NULL
                 /\ r.users[i]["hwidLockedAt"] = NoTime
            ELSE /\ r.resp = Response(400, "User is not hardware locked")
                 /\ r.users = users

\* A bound account whose self-service reset happened less than the cooldown
\* ago, on which the admin reset succeeds.
C20_Witness ==
    \E i \in UserIds :
        /\ HwidSet(users[i])
        /\ HasField(users[i], "subscription.lastHwidReset")
        /\ now - users[i]["subscription.lastHwidReset"] < CooldownDays
        /\ ResetHwidResult(NameOf(i)).resp.status = 200

\* ------------------------------------------------- two accounts, billing
\* Two accounts and the operations that write subscription fields.
TwoNames == {"bob", "eve"}

\* Stripe's subscription events as this specification delivers them: one
\* period end, and a period lookup at checkout that fails.
TwoSubscriptionEvents ==
    {e \in OtherEvents :
        /\ e.type \in {"customer.subscription.updated", "customer.subscription.deleted"}
        /\ e.object.current_period_end = 30}

NextTwo ==
    \/ Tick
    \/ \E u \in TwoNames, p \in Passwords : Signup(u, p)
    \/ \E i \in SessionUsers : CreateCheckoutSession(i)
    \/ \E e \in CheckoutEvents : StripeWebhook(TRUE, e, RetrieveError)
    \/ \E e \in TwoSubscriptionEvents : StripeWebhook(TRUE, e, RetrieveError)
    \/ \E i \in SessionUsers : CancelSubscription(i, TRUE)

SpecTwo == Init /\ [][NextTwo]_vars

CustomerId(doc) == Field(doc, "subscription.stripeCustomerId")

UpdatedFields == {"subscription.status", "subscription.currentPeriodEnd"}

\* Timestamps are instants: the period end delivered in epoch seconds and the
\* ISO string stored for it are the same instant.
\* C16: a subscription-updated event sets, on the account holding the
\* event's customer id, status to the delivered status and currentPeriodEnd
\* to the delivered period end, and changes no other field of that account
\* and no other account.
C16_UpdatedWritesStatusAndPeriodOnly ==
    \A e \in OtherEvents :
        e.type = "customer.subscription.updated"
        => LET r == WebhookResult(TRUE, e, RetrieveError)
           IN  /\ Len(r.users) = Len(users)
               /\ \A i \in UserIds :
                    IF CustomerId(users[i]) = e.object.customer
                    THEN /\ r.users[i]["subscription.status"] = e.object.status
                         /\ r.users[i]["subscription.currentPeriodEnd"]
                              = e.object.current_period_end
                         /\ DOMAIN r.users[i] = DOMAIN users[i]
                         /\ \A f \in DOMAIN users[i] \ UpdatedFields :
                              r.users[i][f] = users[i][f]
                    ELSE r.users[i] = users[i]

\* Two accounts with a customer id each, the first one cancelled with a
\* subscription id, the second active: an update for the first is pending.
C16_Witness ==
    /\ Len(users) = 2
    /\ Truthy(CustomerId(users[1])) /\ Truthy(CustomerId(users[2]))
    /\ Status(users[1]) = "cancelled" /\ Status(users[2]) = "active"
    /\ Truthy(Field(users[1], "subscription.stripeSubscriptionId"))
    /\ \E e \in OtherEvents :
          /\ e.type = "customer.subscription.updated"
          /\ e.object.customer = CustomerId(users[1])
          /\ e.object.status = "past_due"
          /\ Status(WebhookResult(TRUE, e, RetrieveError).users[1]) = "past_due"

\* C18: a subscription-deleted event sets status = cancelled and cancelledAt
\* on the account holding the event's customer id and leaves every other
\* account as it was; on an account already cancelled (a redelivery) the
\* status stays cancelled.
C18_DeletedCancelsMatchedAccountOnly ==
    \A e \in OtherEvents :
        e.type = "customer.subscription.deleted"
        => LET r == WebhookResult(TRUE, e, RetrieveError)
           IN  /\ Len(r.users) = Len(users)
               /\ \A i \in UserIds :
                    IF CustomerId(users[i]) = e.object.customer
                    THEN /\ r.users[i]["subscription.status"] = "cancelled"
                         /\ r.users[i]["subscription.cancelledAt"] = now
                    ELSE r.users[i] = users[i]

\* Two accounts with a customer id each, the second active, the first
\* already cancelled by an earlier delivery that now arrives again.
C18_Witness ==
    /\ Len(users) = 2
    /\ Truthy(CustomerId(users[1])) /\ Truthy(CustomerId(users[2]))
    /\ Status(users[1]) = "cancelled" /\ Status(users[2]) = "active"
    /\ users[1]["subscription.cancelledAt"] \in 0..(now - 1)
    /\ \E e \in OtherEvents :
          /\ e.type = "customer.subscription.deleted"
          /\ e.object.customer = CustomerId(users[1])
          /\ WebhookResult(TRUE, e, RetrieveError).users[1]["subscription.cancelledAt"] = now

\* ------------------------------------------- webhook request, with faults
\* One webhook request at a time, from arrival to response, on each revision
\* of the endpoint, with repository calls that may throw.
Revisions == {"part_001", "part_002", "server.js"}

DeliveryInvoices ==
    [customer : AccountCustomers \cup {UnknownCustomer},
     subscription : SubscriptionIds \cup {NULL},
     amount_paid : {1000}]

DeliveryEvents ==
    CheckoutEvents
    \cup TwoSubscriptionEvents
    \cup [type : {"invoice.payment_succeeded", "invoice.payment_failed"},
          object : DeliveryInvoices]
    \cup {[type |-> "customer.created", object |-> [customer |-> UnknownCustomer]]}

\* What running a handler comes to: the collection afterwards, whether an
\* exception left the handler, whether a repository call threw, and whether
\* the request handler went on to send a response.
Outcome(u, threw, repositoryThrew) ==
    [users |-> u, threw |-> threw, repositoryThrew |-> repositoryThrew,
     answered |-> TRUE]

\* part_001: every handler lets a repository exception out (checkout rethrows
\* it); handlePaymentSucceeded makes no repository call.
Part001Handler(event, answer, repoOk) ==
    CASE event.type = "checkout.session.completed" ->
            IF event.object.userId = NoUserId THEN Outcome(users, FALSE, FALSE)
            ELSE IF ~repoOk THEN Outcome(users, TRUE, TRUE)
            ELSE Outcome(handleCheckoutSessionCompleted(event.object, answer),
                         FALSE, FALSE)
      [] event.type \in {"customer.subscription.updated",
                         "customer.subscription.deleted",
                         "invoice.payment_failed"} ->
            IF ~repoOk THEN Outcome(users, TRUE, TRUE)
            ELSE Outcome(HandleEvent(event, answer), FALSE, FALSE)
      [] OTHER -> Outcome(users, FALSE, FALSE)

\* part_002: the period lookup is not caught, and doc(userId) with no userId
\* throws; both leave the handler.
Part002CheckoutSessionCompleted(session, answer, repoOk) ==
    IF session.packageType # "lifetime"
       /\ ~(Truthy(session.subscription) /\ answer.ok)
    THEN Outcome(users, TRUE, FALSE)
    ELSE IF session.userId = NoUserId THEN Outcome(users, TRUE, FALSE)
    ELSE IF ~repoOk THEN Outcome(users, TRUE, TRUE)
    ELSE Outcome(updateUser(session.userId, CheckoutUpdates(session, answer)),
                 FALSE, FALSE)

\* part_002: try { query; update } catch (error) { console.error(...) }
Part002PaymentSucceeded(invoice, repoOk) ==
    LET userId == getUserByCustomerId(invoice.customer)
    IN  IF ~Truthy(invoice.subscription) THEN Outcome(users, FALSE, FALSE)
        ELSE IF ~repoOk THEN Outcome(users, FALSE, TRUE)
        ELSE IF userId = NoUserId THEN Outcome(users, FALSE, FALSE)
        ELSE Outcome(updateUser(userId,
                        "subscription.lastPaymentDate" :> now @@
                        "subscription.lastPaymentAmount" :> invoice.amount_paid \div 100),
                     FALSE, FALSE)

Part002PaymentFailed(invoice, repoOk) ==
    LET userId == getUserByCustomerId(invoice.customer)
    IN  IF ~Truthy(invoice.subscription) THEN Outcome(users, FALSE, FALSE)
        ELSE IF ~repoOk THEN Outcome(users, FALSE, TRUE)
        ELSE IF userId = NoUserId THEN Outcome(users, FALSE, FALSE)
        ELSE Outcome(updateUser(userId,
                        "subscription.paymentFailed" :> TRUE @@
                        "subscription.lastPaymentError" :> "Payment failed"),
                     FALSE, FALSE)

Part002Handler(event, answer, repoOk) ==
    CASE event.type = "checkout.session.completed" ->
            Part002CheckoutSessionCompleted(event.object, answer, repoOk)
      [] event.type \in {"customer.subscription.updated",
                         "customer.subscription.deleted"} ->
            IF ~repoOk THEN Outcome(users, TRUE, TRUE)
            ELSE Outcome(HandleEvent(event, answer), FALSE, FALSE)
      [] event.type = "invoice.payment_succeeded" ->
            Part002PaymentSucceeded(event.object, repoOk)
      [] event.type = "invoice.payment_failed" ->
            Part002PaymentFailed(event.object, repoOk)
      [] OTHER -> Outcome(users, FALSE, FALSE)

\* server.js: the switch runs outside any try; getUsers() reads users.json,
\* which holds no account of the Firestore collection, so find() matches
\* nothing and nothing is saved.  A throwing read rejects the async handler's
\* promise before res.json is reached.
ServerJsHandler(event, answer, repoOk) ==
    IF event.type \in {"checkout.session.completed", "customer.subscription.deleted"}
       /\ ~repoOk
    THEN [users |-> users, threw |-> TRUE, repositoryThrew |-> TRUE,
          answered |-> FALSE]
    ELSE Outcome(users, FALSE, FALSE)

HandlerOutcome(revision, event, answer, repoOk) ==
    CASE revision = "part_001" -> Part001Handler(event, answer, repoOk)
      [] revision = "part_002" -> Part002Handler(event, answer, repoOk)
      [] OTHER -> ServerJsHandler(event, answer, repoOk)

Receive(revision, signatureValid, event) ==
    /\ delivery.stage = "idle"
    /\ delivery' = [NoDelivery EXCEPT !.stage = "received", !.revision = revision,
                                      !.signatureValid = signatureValid,
                                      !.event = event]
    /\ UNCHANGED <<users, now, logins, resets, vouches, signups>>

\* stripe.webhooks.constructEvent: throws on a bad signature, answered 400.
VerifySignature ==
    /\ delivery.stage = "received"
    /\ delivery' = IF delivery.signatureValid
                   THEN [delivery EXCEPT !.stage = "verified"]
                   ELSE [delivery EXCEPT !.stage = "responded", !.status = 400]
    /\ UNCHANGED <<users, now, logins, resets, vouches, signups>>

\* The switch and the response after it: 200 {received: true}, 500 from the
\* catch around the switch, or no response.
Handle(answer, repoOk) ==
    /\ delivery.stage = "verified"
    /\ LET o == HandlerOutcome(delivery.revision, delivery.event, answer, repoOk)
       IN  /\ users' = o.users
           /\ delivery' =
                [delivery EXCEPT
                    !.stage = IF o.answered THEN "responded" ELSE "rejected",
                    !.status = IF ~o.answered THEN 0
                               ELSE IF o.threw THEN 500 ELSE 200,
                    !.repositoryThrew = o.repositoryThrew]
    /\ UNCHANGED <<now, logins, resets, vouches, signups>>

\* The response has been sent; the endpoint serves the next request.
Close ==
    /\ delivery.stage = "responded"
    /\ delivery' = NoDelivery
    /\ UNCHANGED <<users, now, logins, resets, vouches, signups>>

NextWebhook ==
    \/ \E u \in SignupNames, p \in Passwords : Signup(u, p)
    \/ \E i \in UserIds : CreateCheckoutSession(i)
    \/ \E r \in Revisions, v \in BOOLEAN, e \in DeliveryEvents : Receive(r, v, e)
    \/ VerifySignature
    \/ \E a \in StripeAnswers, ok \in BOOLEAN : Handle(a, ok)
    \/ Close

\* The event loop resumes an async handler whose awaited call has settled.
WebhookSpec ==
    /\ Init /\ [][NextWebhook]_vars
    /\ WF_vars(VerifySignature)
    /\ WF_vars(\E a \in StripeAnswers, ok \in BOOLEAN : Handle(a, ok))

\* C12: an authentic event of a handled type is acknowledged only when its
\* handler succeeded; when a repository call of the handler threw, the
\* response is 500.
C12_FailedHandlerNotAcknowledged ==
    (delivery.stage = "responded" /\ delivery.signatureValid
        /\ delivery.event.type \in HandledTypes)
    => /\ delivery.repositoryThrew => delivery.status = 500
       /\ delivery.status = 200 => ~delivery.repositoryThrew

\* C13: every webhook request that arrives is eventually answered.
C13_EveryDeliveryAnswered ==
    (delivery.stage = "received") ~> (delivery.stage = "responded")

\* ------------------------------------------ client logins, read then write
\* '/api/login' awaits getUserByUsername, decides on the document it read,
\* and awaits updateUser afterwards: other requests run between the two.
\* LoginRead is the handler up to the await of updateUser.
LoginRead(c, username, password, hwid) ==
    /\ logins[c].stage = "idle"
    /\ LET r == LoginResult(username, password, hwid)
           userId == getUserByUsername(username)
       IN  logins' = [logins EXCEPT ![c] =
                IF r.resp.status = 200
                THEN [stage |-> "read", userId |-> userId, hwid |-> hwid,
                      updates |-> LoginUpdates(users[userId], hwid), status |-> 0]
                ELSE [stage |-> "done", userId |-> userId, hwid |-> hwid,
                      updates |-> <<>>, status |-> r.resp.status]]
    /\ UNCHANGED <<users, now, delivery, resets, vouches, signups>>

\* await updateUser(user.id, updates); res.json({ success: true, ... })
LoginWrite(c) ==
    /\ logins[c].stage = "read"
    /\ users' = updateUser(logins[c].userId, logins[c].updates)
    /\ logins' = [logins EXCEPT ![c].stage = "done", ![c].status = 200]
    /\ UNCHANGED <<now, delivery, resets, vouches, signups>>

NextRace ==
    \/ Tick
    \/ \E u \in SignupNames, p \in Passwords : Signup(u, p)
    \/ \E i \in UserIds : CreateCheckoutSession(i)
    \/ \E e \in CheckoutEvents : StripeWebhook(TRUE, e, RetrieveError)
    \/ \E e \in TwoSubscriptionEvents : StripeWebhook(TRUE, e, RetrieveError)
    \/ \E u \in SignupNames : ResetHwid(u)
    \/ \E c \in Clients, u \in SignupNames, p \in Passwords, h \in Hwids :
          LoginRead(c, u, p, h)
    \/ \E c \in Clients : LoginWrite(c)

RaceSpec == Init /\ [][NextRace]_vars

\* C19: in no step does an account's stored hwid go from one non-null value
\* to a different non-null value.
C19_HwidNeverRebound ==
    [][\A i \in UserIds :
          (HwidSet(users[i]) /\ HwidSet(users'[i]))
          => users'[i]["hwid"] = users[i]["hwid"]]_vars

\* ------------------------------------------------ login status codes
\* Request bodies of POST /api/login, a missing field being the empty string.
LoginUsernames == Usernames \cup {""}
LoginPasswords == Passwords \cup {WrongPassword, ""}
LoginHwids == Hwids \cup {""}

AdmittedLogins(i) ==
    {c \in Clients : /\ logins[c].stage = "done"
                     /\ logins[c].status = 200
                     /\ logins[c].userId = i}

\* C28: stats.totalLogins of every account is 1 (its value at creation) plus
\* the number of admitted client logins of the account that have completed,
\* however the logins interleave; hence it is at least 1, never decreases,
\* and a denied login leaves it unchanged.
C28_EveryAdmittedLoginCounted ==
    \A i \in UserIds :
        users[i]["stats.totalLogins"] = 1 + Cardinality(AdmittedLogins(i))

\* Two logins of one account both read before either wrote, and both wrote.
C28_Witness ==
    \E i \in UserIds :
        /\ AdmittedLogins(i) = Clients
        /\ users[i]["stats.totalLogins"] = 3
        /\ \A c \in Clients : "hwid" \in DOMAIN logins[c].updates

\* ------------------------------------------- login beside webhook writes
\* The fields '/api/login' writes, and the fields the webhook handlers write.
LoginPaths ==
    {"hwid", "hwidLockedAt", "lastLogin", "stats.totalLogins",
     "stats.lastLoginDate"}

WebhookPaths ==
    {"subscription.status", "subscription.package", "subscription.activatedAt",
     "subscription.stripeCustomerId", "subscription.stripeSubscriptionId",
     "subscription.currentPeriodEnd", "subscription.cancelledAt"}

\* C27: updates are field-scoped. The write of a login, whatever committed
\* since its read, leaves every subscription field of the account as stored
\* and puts the login's own hwid, hwidLockedAt and stats values; a step that
\* changes a subscription field of an account leaves the fields the login
\* writes as stored.
C27_LoginAndWebhookKeepEachOthersWrites ==
    [][/\ \A c \in Clients :
            (logins[c].stage = "read" /\ logins'[c].stage = "done")
            => LET i == logins[c].userId
                   u == logins[c].updates
               IN  /\ \A p \in WebhookPaths : users'[i][p] = users[i][p]
                   /\ \A p \in DOMAIN u \ IncrementPaths : users'[i][p] = u[p]
                   /\ users'[i]["stats.totalLogins"] =
                          users[i]["stats.totalLogins"] + 1
       /\ \A i \in UserIds :
            (\E p \in WebhookPaths : users'[i][p] # users[i][p])
            => \A p \in LoginPaths : users'[i][p] = users[i][p]]_vars

\* A login has read the account and not yet written, and a webhook has since
\* changed the license status the login read as active.
C27_Witness ==
    \E c \in Clients :
        /\ logins[c].stage = "read"
        /\ "hwid" \in DOMAIN logins[c].updates
        /\ users[logins[c].userId]["subscription.status"] # "active"

\* ------------------------------------------- self-service reset outcome
\* The step wrote subscription.lastHwidReset of account i: a self-service
\* reset of i succeeded.
SelfResetSucceeded(i) ==
    /\ HasField(users'[i], "subscription.lastHwidReset")
    /\ HasField(users[i], "subscription.lastHwidReset")
       => users'[i]["subscription.lastHwidReset"] #
              users[i]["subscription.lastHwidReset"]

\* C22: a successful self-service reset leaves the account with hwid and
\* hwidLockedAt null, and a client login with the right credential is then
\* admitted from any HWID.
C22_SelfResetUnbinds ==
    [][\A i \in UserIds :
          SelfResetSucceeded(i)
          => /\ users'[i]["hwid"] = NULL
             /\ users'[i]["hwidLockedAt"] = NoTime
             /\ \A h \in Hwids :
                   LoginResult(users[i]["username"], users[i]["password"], h)'
                       .resp.status = 200]_vars

\* C23: a self-service reset of an account that is not bound changes nothing
\* and does not answer success.
C23_UnboundSelfResetRefused ==
    \A i \in UserIds :
        ~HwidSet(users[i])
        => /\ SelfResetHwidResult(i).users = users
           /\ SelfResetHwidResult(i).resp.message # "HWID reset successfully"

\* ------------------------------ self-service resets, read then write
\* A day of the clock, up to MaxDays: the cooldown of CooldownDays can elapse.
DayPasses ==
    /\ now < MaxDays
    /\ now' = now + 1
    /\ UNCHANGED <<users, delivery, logins, resets, vouches, signups>>

\* '/api/reset-hwid' awaits usersCollection.doc(id).get(), tests the license
\* and the cooldown on the document it read, and awaits update() afterwards:
\* other requests run between the two. SelfResetRead is the handler up to the
\* await of update().
SelfResetRead(c, sessionUserId) ==
    /\ resets[c].stage = "idle"
    /\ resets' = [resets EXCEPT ![c] =
          IF SelfResetHwidResult(sessionUserId).resp.message = "HWID reset successfully"
          THEN [stage |-> "read", userId |-> sessionUserId, success |-> FALSE,
                at |-> NoTime]
          ELSE [stage |-> "done", userId |-> sessionUserId, success |-> FALSE,
                at |-> NoTime]]
    /\ UNCHANGED <<users, now, delivery, logins, vouches, signups>>

\* await update({'subscription.hwid': null, 'subscription.lastHwidReset':
\* serverTimestamp()}); res.json({ success: true, ... })
SelfResetWrite(c) ==
    /\ resets[c].stage = "read"
    /\ users' = updateUser(resets[c].userId,
                    "subscription.hwid" :> NULL @@
                    "subscription.lastHwidReset" :> now)
    /\ resets' = [resets EXCEPT ![c] =
          [stage |-> "done", userId |-> resets[c].userId, success |-> TRUE,
           at |-> now]]
    /\ UNCHANGED <<now, delivery, logins, vouches, signups>>

NextResetRace ==
    \/ DayPasses
    \/ \E u \in SignupNames, p \in Passwords : Signup(u, p)
    \/ \E i \in UserIds : CreateCheckoutSession(i)
    \/ \E e \in CheckoutEvents : StripeWebhook(TRUE, e, RetrieveError)
    \/ \E c \in Clients, i \in UserIds : SelfResetRead(c, i)
    \/ \E c \in Clients : SelfResetWrite(c)

ResetRaceSpec == Init /\ [][NextResetRace]_vars

\* C21: any two successful self-service resets of one account are at least
\* CooldownDays apart, also when the requests run concurrently.
C21_SuccessfulResetsACooldownApart ==
    \A c, d \in Clients :
        (/\ c # d
         /\ resets[c].success /\ resets[d].success
         /\ resets[c].userId = resets[d].userId)
        => \/ resets[c].at - resets[d].at >= CooldownDays
           \/ resets[d].at - resets[c].at >= CooldownDays

\* ------------------------------------------------ usernames and letter case
\* String.prototype.toLowerCase on the usernames of the model.
ToLowerCase(name) == IF name = "Bob" THEN "bob" ELSE name

\* Signups and lookups under both spellings of the name.
NextCase ==
    \/ Tick
    \/ \E u \in Usernames, p \in Passwords : Signup(u, p)
    \/ \E i \in UserIds : CreateCheckoutSession(i)
    \/ \E e \in CheckoutEvents : StripeWebhook(TRUE, e, RetrieveError)
    \/ \E u \in Usernames, p \in Passwords, h \in Hwids : Login(u, p, h)
    \/ \E u \in Usernames, p \in Passwords : WebLogin(u, p)
    \/ \E u \in Usernames : ResetHwid(u)

CaseSpec == Init /\ [][NextCase]_vars

\* C25: no two accounts have usernames that are equal ignoring letter case.
C25_UsernamesUniqueIgnoringCase ==
    \A i, j \in UserIds :
        i # j => ToLowerCase(users[i]["username"]) # ToLowerCase(users[j]["username"])

\* C26: a lookup by a username that differs from an account's stored username
\* only in letter case finds the account, and a client login giving it with
\* the account's credential is not turned away as invalid credentials.
C26_LookupIgnoresCase ==
    \A i \in UserIds, u \in Usernames :
        ToLowerCase(u) = ToLowerCase(users[i]["username"])
        => /\ getUserByUsername(u) = i
           /\ \A h \in Hwids :
                 LoginResult(u, users[i]["password"], h).resp.status # 401

\* ======================================================= vouch moderation
\* The chat-bot commands on the 'vouches' collection. A vouch id is the
\* position of the document in the collection.
Members == {"alice", "carol"}
Moderators == {"mod"}
VouchMessages == {"Great work", "Too short"}
RatingArgs == {"1", "5", "6", "abc"}
Reasons == {"", "spam"}

\* parseInt of the rating argument; NaN is kept apart from every rating.
NaN == -1

\* parseInt reads the leading decimal digits of the argument and ignores
\* what follows them; an argument that starts with no digit gives NaN.
ParseInt(arg) ==
    CASE arg = "0" -> 0
      [] arg = "1" -> 1
      [] arg = "5" -> 5
      [] arg = "6" -> 6
      [] arg = "4.7" -> 4
      [] arg = "5stars" -> 5
      [] OTHER -> NaN

VouchIds == 1..Len(vouches)

\* The id argument of a moderation command: 0 is a command without one, an
\* id past the collection names no document.
VouchArgs == 0..(MaxVouches + 1)

Reply(vs, text) == [vouches |-> vs, reply |-> text]

updateVouch(vouchId, updates) ==
    [vouches EXCEPT ![vouchId] = MergeFields(vouches[vouchId], updates)]

\* !vouch @user rating message
VouchResult(inChannel, author, mentionedUser, ratingArg, vouchMessage) ==
    LET rating == ParseInt(ratingArg)
        vouchData ==
            ("authorId" :> author @@ "targetUserId" :> mentionedUser @@
             "rating" :> rating @@ "message" :> vouchMessage @@
             "createdAt" :> now @@ "approved" :> FALSE @@ "featured" :> FALSE)
    IN  IF ~inChannel
        THEN Reply(vouches, "Please use vouches in the vouch channel")
        ELSE IF ~Truthy(mentionedUser)
        THEN Reply(vouches, "Please mention a user to vouch for")
        ELSE IF mentionedUser = author
        THEN Reply(vouches, "You cannot vouch for yourself")
        ELSE IF ~Truthy(ratingArg) \/ rating = NaN \/ rating < 1 \/ rating > 5
        THEN Reply(vouches, "Please provide a valid rating")
        ELSE IF ~Truthy(vouchMessage) \/ Len(vouchMessage) < 10
        THEN Reply(vouches, "Please provide a vouch message")
        ELSE IF Len(vouchMessage) > 500
        THEN Reply(vouches, "Vouch message is too long")
        ELSE Reply(Append(vouches, vouchData), "Vouch Submitted")

Vouch(inChannel, author, mentionedUser, ratingArg, vouchMessage) ==
    /\ Len(vouches) < MaxVouches
    /\ vouches' = VouchResult(inChannel, author, mentionedUser, ratingArg,
                              vouchMessage).vouches
    /\ UNCHANGED <<users, now, delivery, logins, resets, signups>>

\* !approve <vouchId>
ApproveResult(hasPermission, vouchId, moderator) ==
    IF ~hasPermission
    THEN Reply(vouches, "You do not have permission to approve vouches")
    ELSE IF vouchId = 0
    THEN Reply(vouches, "Please provide a vouch ID")
    ELSE IF vouchId \notin VouchIds
    THEN Reply(vouches, "Vouch not found")
    ELSE Reply(updateVouch(vouchId, "approved" :> TRUE @@
                                    "approvedBy" :> moderator @@
                                    "approvedAt" :> now),
               "Vouch Approved")

Approve(hasPermission, vouchId, moderator) ==
    /\ vouches' = ApproveResult(hasPermission, vouchId, moderator).vouches
    /\ UNCHANGED <<users, now, delivery, logins, resets, signups>>

\* The rejection removing the document instead of marking it.
RejectResult_Deletes(hasPermission, vouchId, moderator, reasonArg) ==
    IF ~hasPermission
    THEN Reply(vouches, "You do not have permission to reject vouches")
    ELSE IF vouchId = 0
    THEN Reply(vouches, "Please provide a vouch ID")
    ELSE IF vouchId \notin VouchIds
    THEN Reply(vouches, "Vouch not found")
    ELSE Reply(SubSeq(vouches, 1, vouchId - 1)
               \o SubSeq(vouches, vouchId + 1, Len(vouches)),
               "Vouch Rejected")

\* !reject <vouchId> [reason]
RejectResult(hasPermission, vouchId, moderator, reasonArg) ==
    LET reason == IF Truthy(reasonArg) THEN reasonArg ELSE "No reason provided"
    IN  IF ~hasPermission
        THEN Reply(vouches, "You do not have permission to reject vouches")
        ELSE IF vouchId = 0
        THEN Reply(vouches, "Please provide a vouch ID")
        ELSE IF vouchId \notin VouchIds
        THEN Reply(vouches, "Vouch not found")
        ELSE Reply(updateVouch(vouchId, "approved" :> FALSE @@
                                        "rejected" :> TRUE @@
                                        "rejectedBy" :> moderator @@
                                        "rejectedAt" :> now @@
                                        "rejectionReason" :> reason),
                   "Vouch Rejected")

Reject(hasPermission, vouchId, moderator, reasonArg) ==
    /\ vouches' = RejectResult(hasPermission, vouchId, moderator, reasonArg).vouches
    /\ UNCHANGED <<users, now, delivery, logins, resets, signups>>

\* The toggle without the test of vouchData.approved.
FeatureResult_Unguarded(hasPermission, vouchId) ==
    IF ~hasPermission
    THEN Reply(vouches, "You do not have permission to feature vouches")
    ELSE IF vouchId = 0
    THEN Reply(vouches, "Please provide a vouch ID")
    ELSE IF vouchId \notin VouchIds
    THEN Reply(vouches, "Vouch not found")
    ELSE Reply(updateVouch(vouchId, "featured" :> ~vouches[vouchId]["featured"]),
               "Vouch featured state changed")

\* !feature <vouchId>
FeatureResult(hasPermission, vouchId) ==
    IF ~hasPermission
    THEN Reply(vouches, "You do not have permission to feature vouches")
    ELSE IF vouchId = 0
    THEN Reply(vouches, "Please provide a vouch ID")
    ELSE IF vouchId \notin VouchIds
    THEN Reply(vouches, "Vouch not found")
    ELSE IF ~vouches[vouchId]["approved"]
    THEN Reply(vouches, "Vouch must be approved before it can be featured")
    ELSE Reply(updateVouch(vouchId, "featured" :> ~vouches[vouchId]["featured"]),
               "Vouch featured state changed")

Feature(hasPermission, vouchId) ==
    /\ vouches' = FeatureResult(hasPermission, vouchId).vouches
    /\ UNCHANGED <<users, now, delivery, logins, resets, signups>>

NextVouch ==
    \/ \E inChannel \in BOOLEAN, author \in Members,
          mentionedUser \in Members \cup {NULL},
          ratingArg \in RatingArgs \cup {""},
          vouchMessage \in VouchMessages \cup {""} :
          Vouch(inChannel, author, mentionedUser, ratingArg, vouchMessage)
    \/ \E hasPermission \in BOOLEAN, vouchId \in VouchArgs, moderator \in Moderators :
          Approve(hasPermission, vouchId, moderator)
    \/ \E hasPermission \in BOOLEAN, vouchId \in VouchArgs, moderator \in Moderators,
          reasonArg \in Reasons :
          Reject(hasPermission, vouchId, moderator, reasonArg)
    \/ \E hasPermission \in BOOLEAN, vouchId \in VouchArgs :
          Feature(hasPermission, vouchId)

VouchSpec == Init /\ [][NextVouch]_vars

\* The vouch carries rejected = true.
Rejected(vouch) == HasField(vouch, "rejected") /\ vouch["rejected"]

\* C29: in every state, every vouch with featured = true has approved = true.
C29_FeaturedImpliesApproved ==
    \A v \in VouchIds : vouches[v]["featured"] => vouches[v]["approved"]

\* C30: rejection is terminal: no vouch that has been rejected is approved,
\* so no vouch is both approved = true and rejected = true.
C30_RejectedNeverApproved ==
    \A v \in VouchIds : ~(Rejected(vouches[v]) /\ vouches[v]["approved"])

\* C31: '!feature' by a moderator on a vouch with approved = false is refused
\* and leaves the collection unchanged, whatever the vouch's featured value;
\* on a vouch with approved = true it sets featured to the negation of its
\* stored value and changes nothing else.
C31_FeatureNeedsApproval ==
    \A v \in VouchIds :
        LET r == FeatureResult(TRUE, v)
        IN  IF ~vouches[v]["approved"]
            THEN /\ r.vouches = vouches
                 /\ r.reply = "Vouch must be approved before it can be featured"
            ELSE r.vouches =
                   [vouches EXCEPT ![v]["featured"] = ~vouches[v]["featured"]]

\* A vouch that is featured and not approved (rejected while featured) is
\* refused, and an approved vouch beside it is toggled.
C31_Witness ==
    \E v, w \in VouchIds :
        /\ ~vouches[v]["approved"] /\ vouches[v]["featured"]
        /\ FeatureResult(TRUE, v).vouches = vouches
        /\ vouches[w]["approved"]
        /\ FeatureResult(TRUE, w).vouches[w]["featured"] = ~vouches[w]["featured"]

\* ------------------------------------------------- submission validation
RECURSIVE Repeat(_, _)
Repeat(text, n) == IF n = 0 THEN "" ELSE text \o Repeat(text, n - 1)

\* Rating arguments and messages a member may type, at and around the limits:
\* messages of 9, 10, 500 and 501 characters.
TypedRatings == RatingArgs \cup {"", "0", "4.7", "5stars"}

TypedMessages ==
    VouchMessages \cup {"", Repeat("0123456789", 50), Repeat("0123456789", 50) \o "x"}

\* C32: a submission stores a new vouch exactly when author and target
\* differ, the rating is an integer in 1..5 and the message has 10 to 500
\* characters; otherwise it stores nothing.
C32_SubmissionStoredIffValid ==
    \A author \in Members, target \in Members,
       ratingArg \in TypedRatings, vouchMessage \in TypedMessages :
        LET r == VouchResult(TRUE, author, target, ratingArg, vouchMessage)
            valid == /\ author # target
                     /\ ratingArg \in {"1", "2", "3", "4", "5"}
                     /\ Len(vouchMessage) >= 10 /\ Len(vouchMessage) <= 500
        IN  /\ valid => Len(r.vouches) = Len(vouches) + 1
            /\ ~valid => r.vouches = vouches

\* ------------------------------------------------------ vouch statistics
\* The query without where('approved', '==', true).
Snapshot_Unfiltered(target) ==
    SelectSeq(vouches,
              LAMBDA d : target = NULL \/ d["targetUserId"] = target)

\* vouchesCollection.where('approved', '==', true).get(): '/api/vouches/stats'
\* asks for every target (NULL here), '!vouches' adds
\* where('targetUserId', '==', mentionedUser.id).
Snapshot(target) ==
    SelectSeq(vouches,
              LAMBDA d : /\ d["approved"]
                         /\ target = NULL \/ d["targetUserId"] = target)

\* vouches.reduce((sum, v) => sum + v.rating, 0)
RECURSIVE SumRatings(_)
SumRatings(docs) ==
    IF docs = <<>> THEN 0 ELSE Head(docs)["rating"] + SumRatings(Tail(docs))

\* totalVouches, averageRating (toFixed(1), kept in tenths) and
\* ratingDistribution, recomputed from the query's documents.
VouchStats(target) ==
    LET docs == Snapshot(target)
        totalVouches == Len(docs)
    IN  [totalVouches |-> totalVouches,
         averageTenths |->
            IF totalVouches > 0
            THEN (20 * SumRatings(docs) + totalVouches) \div (2 * totalVouches)
            ELSE 0,
         ratingDistribution |->
            [rating \in 1..5 |->
                Len(SelectSeq(docs, LAMBDA v : v["rating"] = rating))]]

\* C33: for every target (and for all targets together), the count is the
\* number of stored vouches with approved = true, each histogram entry is the
\* number of those with that rating, and the entries sum to the count, so a
\* vouch with approved = false contributes nothing; one approved vouch with
\* rating 5 gives count 1, average 5.0 and histogram {5: 1, others: 0}.
C33_StatsCountApprovedOnly ==
    \A target \in Members \cup {NULL} :
        LET stats == VouchStats(target)
            approved == {v \in VouchIds :
                            /\ vouches[v]["approved"]
                            /\ target = NULL \/ vouches[v]["targetUserId"] = target}
        IN  /\ stats.totalVouches = Cardinality(approved)
            /\ \A rating \in 1..5 :
                  stats.ratingDistribution[rating] =
                      Cardinality({v \in approved : vouches[v]["rating"] = rating})
            /\ stats.ratingDistribution[1] + stats.ratingDistribution[2]
               + stats.ratingDistribution[3] + stats.ratingDistribution[4]
               + stats.ratingDistribution[5] = stats.totalVouches
            /\ (\E v \in approved : approved = {v} /\ vouches[v]["rating"] = 5)
               => stats = [totalVouches |-> 1, averageTenths |-> 50,
                           ratingDistribution |->
                               [rating \in 1..5 |-> IF rating = 5 THEN 1 ELSE 0]]

\* carol has one approved vouch of rating 5 and one rejected vouch of rating 1.
C33_Witness ==
    \E v, w \in VouchIds :
        /\ vouches[v]["targetUserId"] = "carol" /\ vouches[w]["targetUserId"] = "carol"
        /\ vouches[v]["approved"] /\ vouches[v]["rating"] = 5
        /\ ~vouches[w]["approved"] /\ Rejected(vouches[w]) /\ vouches[w]["rating"] = 1
        /\ VouchStats("carol").totalVouches = 1
        /\ VouchStats("carol").ratingDistribution[5] = 1
        /\ VouchStats("carol").ratingDistribution[1] = 0

\* -------------------------------------------------------- vouch listings
\* orderBy('createdAt', 'desc') over the documents with the given ids:
\* documents are added in the order of their createdAt.
NewestFirst(ids) ==
    SelectSeq([i \in 1..Len(vouches) |-> Len(vouches) + 1 - i],
              LAMBDA v : v \in ids)

\* .limit(n)
Limit(docs, n) == SubSeq(docs, 1, IF Len(docs) < n THEN Len(docs) ELSE n)

\* The featured query without where('approved', '==', true).
FeaturedListing_FeaturedOnly ==
    Limit(NewestFirst({v \in VouchIds : vouches[v]["featured"]}), 6)

\* GET /api/vouches/featured: the ids of the documents returned.
FeaturedListing ==
    Limit(NewestFirst({v \in VouchIds :
                          vouches[v]["approved"] /\ vouches[v]["featured"]}), 6)

\* GET /api/vouches?limit=&lastId=: startAfter(lastDoc) when lastId names a
\* document (0: no lastId).
ApprovedListing(limit, lastId) ==
    Limit(NewestFirst({v \in VouchIds :
                          /\ vouches[v]["approved"]
                          /\ lastId \in VouchIds => v < lastId}), limit)

\* C34: a vouch is stored with approved = false and featured = false; the
\* approved listing returns only vouches with approved = true and the
\* featured listing only vouches with approved = true and featured = true,
\* so a vouch with approved = false (pending, or rejected after approval) is
\* in neither.
C34_ListingsShowApprovedOnly ==
    /\ \A author \in Members, target \in Members,
          ratingArg \in RatingArgs, vouchMessage \in VouchMessages :
          LET r == VouchResult(TRUE, author, target, ratingArg, vouchMessage).vouches
          IN  Len(r) > Len(vouches)
              => ~r[Len(r)]["approved"] /\ ~r[Len(r)]["featured"]
    /\ \A i \in DOMAIN FeaturedListing :
          /\ vouches[FeaturedListing[i]]["approved"]
          /\ vouches[FeaturedListing[i]]["featured"]
    /\ \A limit \in {1, 20}, lastId \in VouchArgs :
          \A i \in DOMAIN ApprovedListing(limit, lastId) :
              vouches[ApprovedListing(limit, lastId)[i]]["approved"]
    /\ \A v \in VouchIds :
          ~vouches[v]["approved"]
          => /\ \A i \in DOMAIN FeaturedListing : FeaturedListing[i] # v
             /\ \A i \in DOMAIN ApprovedListing(20, 0) :
                   ApprovedListing(20, 0)[i] # v

\* A vouch rejected after it was approved and featured is in neither listing,
\* an approved and featured vouch beside it is in both.
C34_Witness ==
    \E v, w \in VouchIds :
        /\ Rejected(vouches[v]) /\ vouches[v]["featured"] /\ ~vouches[v]["approved"]
        /\ FeaturedListing = <<w>>
        /\ ApprovedListing(20, 0) = <<w>>

\* ----------------------------------------------- moderation is an overlay
\* The fields of a vouch that '!vouch' writes and moderation leaves alone.
ContentPaths == {"authorId", "targetUserId", "rating", "message", "createdAt"}

\* C35: no command removes a vouch; '!approve', '!reject' and '!feature'
\* keep the number of vouches and every vouch's authorId, targetUserId,
\* rating, message and createdAt, and touch no vouch but the one named; with
\* an id that names no vouch they reply 'Vouch not found' and change nothing;
\* '!vouch' keeps every stored vouch as it is.
C35_ModerationKeepsVouches ==
    /\ \A vouchId \in VouchArgs, moderator \in Moderators, reasonArg \in Reasons :
          \A r \in {ApproveResult(TRUE, vouchId, moderator),
                    RejectResult(TRUE, vouchId, moderator, reasonArg),
                    FeatureResult(TRUE, vouchId)} :
              /\ Len(r.vouches) = Len(vouches)
              /\ \A v \in VouchIds :
                    /\ \A p \in ContentPaths : r.vouches[v][p] = vouches[v][p]
                    /\ v # vouchId => r.vouches[v] = vouches[v]
              /\ (vouchId # 0 /\ vouchId \notin VouchIds)
                 => r = Reply(vouches, "Vouch not found")
    /\ \A inChannel \in BOOLEAN, author \in Members, target \in Members \cup {NULL},
          ratingArg \in RatingArgs, vouchMessage \in VouchMessages :
          LET r == VouchResult(inChannel, author, target, ratingArg, vouchMessage)
          IN  SubSeq(r.vouches, 1, Len(vouches)) = vouches

\* A vouch that was approved, featured and rejected still carries what its
\* author submitted, and a command naming no vouch changes nothing.
C35_Witness ==
    \E v \in VouchIds :
        /\ Rejected(vouches[v]) /\ HasField(vouches[v], "approvedBy")
        /\ vouches[v]["featured"]
        /\ vouches[v]["authorId"] = "alice" /\ vouches[v]["targetUserId"] = "carol"
        /\ vouches[v]["rating"] = 5 /\ vouches[v]["message"] = "Great work"
        /\ RejectResult(TRUE, Len(vouches) + 1, "mod", "spam").vouches = vouches

\* --------------------------------------------------- first-bind race
\* C36: of two concurrent logins that present different HWIDs for the same
\* unbound account at most one is admitted: a login that found the account
\* unbound is not answered 200 once the account is bound to another HWID.
C36_AtMostOneFirstLoginAdmitted ==
    [][\A c \in Clients :
          (/\ logins[c].stage = "read" /\ logins'[c].stage = "done"
           /\ logins'[c].status = 200
           /\ "hwid" \in DOMAIN logins[c].updates)
          => users[logins[c].userId]["hwid"] \in {NULL, logins[c].hwid}]_vars

\* ------------------------------------------------ out-of-order delivery
\* C37: a subscription-updated event carrying status active, delivered for
\* an account whose status a subscription-deleted event has set to cancelled,
\* does not return the account to status active, so a client login of the
\* account is still not admitted after it.
C37_StaleUpdateKeepsCancelled ==
    \A i \in UserIds, e \in OtherEvents :
        (/\ e.type = "customer.subscription.updated"
         /\ e.object.status = "active"
         /\ e.object.customer = users[i]["subscription.stripeCustomerId"]
         /\ users[i]["subscription.status"] = "cancelled")
        => WebhookResult(TRUE, e, RetrieveError).users[i]["subscription.status"]
              # "active"

C39_BindingAndLicenseWritersDisjoint ==
    /\ \A e \in Events, answer \in StripeAnswers, valid \in BOOLEAN :
          LET r == WebhookResult(valid, e, answer).users
          IN  /\ Len(r) = Len(users)
              /\ \A i \in UserIds :
                    \A p \in LoginPaths \cup {"username", "password"} :
                        r[i][p] = users[i][p]
    /\ \A u \in LoginUsernames, p \in LoginPasswords, h \in LoginHwids :
          \A r \in {LoginResult(u, p, h).users, ResetHwidResult(u).users} :
              /\ Len(r) = Len(users)
              /\ \A i \in UserIds :
                    /\ DOMAIN r[i] = DOMAIN users[i]
                    /\ \A q \in DOMAIN users[i] \ LoginPaths : r[i][q] = users[i][q]

\* A bound account with an active license: a subscription-deleted event for
\* its customer changes the license and not the binding, and a login and an
\* admin reset change the binding and not the license.
C39_Witness ==
    \E i \in UserIds, e \in OtherEvents :
        /\ users[i]["hwid"] = "HW-A"
        /\ users[i]["subscription.status"] = "active"
        /\ e.type = "customer.subscription.deleted"
        /\ e.object.customer = users[i]["subscription.stripeCustomerId"]
        /\ WebhookResult(TRUE, e, RetrieveError).users[i]["subscription.status"] = "cancelled"
        /\ WebhookResult(TRUE, e, RetrieveError).users[i]["hwid"] = "HW-A"
        /\ ResetHwidResult(users[i]["username"]).users[i]["hwid"] = NULL
        /\ ResetHwidResult(users[i]["username"]).users[i]["subscription.status"] = "active"

\* ------------------------------------------ signups, lookup then create
\* '/api/signup' awaits getUserByUsername, answers 409 when it found an
\* account, and awaits createUser afterwards: other requests run between the
\* two. SignupRead is the handler up to the await of createUser.
SignupRead(c, username, password) ==
    /\ signups[c].stage = "idle"
    /\ signups' = [signups EXCEPT ![c] =
          IF SignupResult(username, password).resp.status = 200
          THEN [stage |-> "read", username |-> username, password |-> password,
                status |-> 0]
          ELSE [stage |-> "done", username |-> username, password |-> password,
                status |-> SignupResult(username, password).resp.status]]
    /\ UNCHANGED <<users, now, delivery, logins, resets, vouches>>

\* const newUser = await createUser(username, password); res.json(success)
SignupWrite(c) ==
    /\ signups[c].stage = "read"
    /\ users' = Append(users, createUser(signups[c].username, signups[c].password))
    /\ signups' = [signups EXCEPT ![c].stage = "done", ![c].status = 200]
    /\ UNCHANGED <<now, delivery, logins, resets, vouches>>

NextSignupRace ==
    \/ Tick
    \/ \E c \in Clients, u \in Usernames, p \in Passwords : SignupRead(c, u, p)
    \/ \E c \in Clients : SignupWrite(c)
    \/ \E i \in UserIds : CreateCheckoutSession(i)
    \/ \E e \in CheckoutEvents : StripeWebhook(TRUE, e, RetrieveError)
    \/ \E u \in Usernames, p \in Passwords : WebLogin(u, p)

SignupRaceSpec == Init /\ [][NextSignupRace]_vars

\* C40: no two accounts have the same username, also when signups for one
\* username run concurrently: at most one of them creates an account.
C40_ConcurrentSignupsKeepUsernamesUnique ==
    \A i, j \in UserIds : i # j => users[i]["username"] # users[j]["username"]

====
